---------------------------- MODULE Spec2Model ----------------------------
(***************************************************************************)
(* A model of the Mamdani fuzzy inference engine of fuzzy_logic.py:        *)
(* FuzzyValue (degree arrays and their combinators), FuzzyVariable        *)
(* (membership-function table, stored fuzzy values, clone / fuzzify /     *)
(* is_) and FuzzyLogic (run_rules, predict, predict_categorical).          *)
(*                                                                         *)
(* Numbers.  Coordinates (a, b, c, crisp inputs, variable bounds) are      *)
(* integers in 0..MaxCoord.  A membership degree d in [0,1] is stored as   *)
(* the integer d * Scale; Scale is a multiple of every denominator the     *)
(* membership functions can produce inside the bounds, so every division   *)
(* of the model is exact.  A sample point is a fraction [num, den].  The   *)
(* centroid is kept as an exact fraction; 0/0 is the float NaN.            *)
(*                                                                         *)
(* Objects.  A FuzzyVariable's _fuzzy_values dict is an object on a heap   *)
(* and the variable holds a reference to it, so that sharing a dict        *)
(* between a definition and a view is expressible.  A dict is a sequence   *)
(* of [k, v] entries in insertion order, as Python dicts are.              *)
(***************************************************************************)
EXTENDS Integers, Sequences, FiniteSets, TLC

VARIABLES inputs, output, rules, heap, call, outcome, log

vars == <<inputs, output, rules, heap, call, outcome, log>>

-----------------------------------------------------------------------------
(* Bounds *)

MaxCoord == 2

UniverseN == 3

MaxRules == 2

-----------------------------------------------------------------------------
(* Arithmetic helpers *)

RECURSIVE Product(_)
Product(n) == IF n <= 1 THEN 1 ELSE n * Product(n - 1)

Scale == (UniverseN - 1) * Product(MaxCoord)

RECURSIVE GCD(_, _)
GCD(x, y) == IF y = 0 THEN x ELSE GCD(y, x % y)

Min2(x, y) == IF x <= y THEN x ELSE y

Max2(x, y) == IF x >= y THEN x ELSE y

RECURSIVE SumSeq(_)
SumSeq(s) == IF Len(s) = 0 THEN 0 ELSE Head(s) + SumSeq(Tail(s))

Coords == 0..MaxCoord

Pt(x) == [num |-> x, den |-> 1]

-----------------------------------------------------------------------------
(* Ordered dicts *)

Has(d, key) == \E i \in 1..Len(d) : d[i].k = key

Get(d, key) == d[CHOOSE i \in 1..Len(d) : d[i].k = key].v

Put(d, key, val) ==
    IF Has(d, key)
    THEN [i \in 1..Len(d) |-> IF d[i].k = key THEN [k |-> key, v |-> val] ELSE d[i]]
    ELSE Append(d, [k |-> key, v |-> val])

-----------------------------------------------------------------------------
(* FuzzyValue *)

\* FuzzyValue(): the default degree array np.array([0])
FuzzyValue0 == <<0>>

\* numpy broadcasting of two one-dimensional shapes
Broadcastable(la, lb) == la = lb \/ la = 1 \/ lb = 1

\* a slip: the shorter operand decides the length
BroadcastLen_truncating(la, lb) == IF la <= lb THEN la ELSE lb

BroadcastLen(la, lb) == IF la = 1 THEN lb ELSE la

At(s, i) == IF Len(s) = 1 THEN s[1] ELSE s[i]

\* a slip: np.maximum where np.minimum is meant
FuzzyValue_and_maximum(self, other) ==
    IF Broadcastable(Len(self), Len(other))
    THEN [ok |-> TRUE,
          degree |-> [i \in 1..BroadcastLen(Len(self), Len(other)) |->
                        Max2(At(self, i), At(other, i))]]
    ELSE [ok |-> FALSE, degree |-> <<>>]

FuzzyValue_and(self, other) ==
    IF Broadcastable(Len(self), Len(other))
    THEN [ok |-> TRUE,
          degree |-> [i \in 1..BroadcastLen(Len(self), Len(other)) |->
                        Min2(At(self, i), At(other, i))]]
    ELSE [ok |-> FALSE, degree |-> <<>>]

FuzzyValue_or(self, other) ==
    IF Broadcastable(Len(self), Len(other))
    THEN [ok |-> TRUE,
          degree |-> [i \in 1..BroadcastLen(Len(self), Len(other)) |->
                        Max2(At(self, i), At(other, i))]]
    ELSE [ok |-> FALSE, degree |-> <<>>]

FuzzyValue_invert(self) == [i \in 1..Len(self) |-> Scale - self[i]]

-----------------------------------------------------------------------------
(* FuzzyVariable *)

\* the closure `function` of add_triangular_membership_function at one point
function(f, x) ==
    LET r0 == 0
        r1 == IF f.a # f.b /\ f.a * x.den <= x.num /\ x.num <= f.b * x.den
              THEN ((x.num - f.a * x.den) * Scale) \div ((f.b - f.a) * x.den)
              ELSE r0
        r2 == IF f.b # f.c /\ f.b * x.den <= x.num /\ x.num <= f.c * x.den
              THEN ((f.c * x.den - x.num) * Scale) \div ((f.c - f.b) * x.den)
              ELSE r1
    IN  r2

\* the closure applied to np.atleast_1d(x)
membership(f, pts) == [i \in 1..Len(pts) |-> function(f, pts[i])]

\* FuzzyVariable(name, min_val, max_val); its empty _fuzzy_values dict is at ref
FuzzyVariable(name, min_val, max_val, ref) ==
    [name |-> name, min_val |-> min_val, max_val |-> max_val,
     mfs |-> <<>>, fv |-> ref]

Alloc(m, d) == [m EXCEPT !.h = Append(m.h, d)]

Note(m, e) == [m EXCEPT !.log = Append(m.log, e)]

Event(ev, by, name, la, lb) == [ev |-> ev, by |-> by, name |-> name, la |-> la, lb |-> lb]

\* a local variable: v is evaluated once and F applied to its value
With(v, F(_)) == CHOOSE y \in {F(x) : x \in {v}} : TRUE

\* a slip: the copy keeps the original's _fuzzy_values dict
clone_sharing(m, v) == [m |-> m, var |-> v]

clone(m, v) ==
    [m   |-> Alloc(m, [i \in 1..Len(v.mfs) |-> [k |-> v.mfs[i].k, v |-> FuzzyValue0]]),
     var |-> [v EXCEPT !.fv = Len(m.h) + 1]]

fuzzify(m, v, pts) ==
    IF Len(v.mfs) = 0
    THEN [ok |-> FALSE, m |-> m, var |-> v]
    ELSE With(clone(m, v), LAMBDA new_var :
            [ok  |-> TRUE,
             m   |-> Alloc(new_var.m,
                           [i \in 1..Len(v.mfs) |->
                              [k |-> v.mfs[i].k, v |-> membership(v.mfs[i].v, pts)]]),
             var |-> [new_var.var EXCEPT !.fv = Len(new_var.m.h) + 1]])

\* a slip: a missing category reads as the default value (dict.get)
is_defaulting(m, v, category) ==
    IF ~Has(m.h[v.fv], category)
    THEN [ok |-> TRUE, degree |-> FuzzyValue0]
    ELSE [ok |-> TRUE, degree |-> Get(m.h[v.fv], category)]

is_(m, v, category) ==
    IF ~Has(m.h[v.fv], category)
    THEN [ok |-> FALSE, degree |-> <<>>]
    ELSE [ok |-> TRUE, degree |-> Get(m.h[v.fv], category)]

is_not(m, v, category) ==
    With(is_(m, v, category), LAMBDA r :
        IF r.ok THEN [ok |-> TRUE, degree |-> FuzzyValue_invert(r.degree)] ELSE r)

setitem(m, v, category, value) ==
    [m EXCEPT !.h[v.fv] = Put(@, category, value)]

\* a slip: >= where > is meant, so the last of several maxima wins
RECURSIVE max_by_degree_last(_, _, _)
max_by_degree_last(d, i, best) ==
    IF i > Len(d) THEN best
    ELSE IF d[i].v[1] >= d[best].v[1] THEN max_by_degree_last(d, i + 1, i)
    ELSE max_by_degree_last(d, i + 1, best)

\* Python's max(iterable, key=...): the first element is the candidate and a later
\* element replaces it only when its key is strictly greater
RECURSIVE max_by_degree(_, _, _)
max_by_degree(d, i, best) ==
    IF i > Len(d) THEN best
    ELSE IF d[i].v[1] > d[best].v[1] THEN max_by_degree(d, i + 1, i)
    ELSE max_by_degree(d, i + 1, best)

get_max_membership_category(m, v) ==
    LET d == m.h[v.fv]
    IN  IF Len(d) = 0 \/ (Len(d) > 1 /\ \E i \in 1..Len(d) : Len(d[i].v) # 1)
        THEN [ok |-> FALSE, category |-> ""]
        ELSE [ok |-> TRUE, category |-> d[max_by_degree(d, 2, 1)].k]

\* a slip: the default FuzzyValue of the new category is not stored
add_membership_function_unset(m, v, category, func) ==
    IF \E i \in 1..Len(v.mfs) : v.mfs[i].k = category
    THEN [ok |-> FALSE, m |-> m, var |-> v]
    ELSE [ok  |-> TRUE,
          m   |-> m,
          var |-> [v EXCEPT !.mfs = Append(@, [k |-> category, v |-> func])]]

add_membership_function(m, v, category, func) ==
    IF \E i \in 1..Len(v.mfs) : v.mfs[i].k = category
    THEN [ok |-> FALSE, m |-> m, var |-> v]
    ELSE [ok  |-> TRUE,
          m   |-> setitem(m, v, category, FuzzyValue0),
          var |-> [v EXCEPT !.mfs = Append(@, [k |-> category, v |-> func])]]

add_triangular_membership_function(m, v, category, a, b, c) ==
    add_membership_function(m, v, category, [a |-> a, b |-> b, c |-> c])

-----------------------------------------------------------------------------
(* FuzzyLogic *)

FuzzyLogic(ins, out, rs) == [inputs |-> ins, output |-> out, rules |-> rs]

\* the outcome of run_rules: a result variable, or the exception raised
Returned(m, result, views) ==
    [ok |-> TRUE, err |-> "", names |-> {}, rule |-> 0,
     m |-> m, result |-> result, views |-> views]

Raised(m, err, names, i) ==
    [ok |-> FALSE, err |-> err, names |-> names, rule |-> i,
     m |-> m, result |-> FuzzyVariable("", 0, 0, 0), views |-> <<>>]

\* a slip: `in` where `not in` is meant
check_all_variables_provided_inverted(self, crisp) ==
    {self.inputs[i].name : i \in {j \in 1..Len(self.inputs) :
                                     self.inputs[j].name \in DOMAIN crisp}}

check_all_variables_provided(self, crisp) ==
    {self.inputs[i].name : i \in {j \in 1..Len(self.inputs) :
                                     self.inputs[j].name \notin DOMAIN crisp}}

\* inputs = {var.name: var.fuzzify(crisp_values[var.name]) for var in self.inputs}
RECURSIVE fuzzify_inputs(_, _, _, _, _)
fuzzify_inputs(m, self, crisp, i, views) ==
    IF i > Len(self.inputs) THEN Returned(m, self.output, views)
    ELSE IF self.inputs[i].name \notin DOMAIN crisp
    THEN Raised(m, "KeyError", {self.inputs[i].name}, 0)
    ELSE With(fuzzify(Note(m, Event("fuzzify", "run_rules", self.inputs[i].name, 0, 0)),
                      self.inputs[i], <<Pt(crisp[self.inputs[i].name])>>),
              LAMBDA f :
                IF ~f.ok
                THEN Raised(f.m, "NoMembershipFunctions", {self.inputs[i].name}, 0)
                ELSE fuzzify_inputs(f.m, self, crisp, i + 1,
                                    Put(views, self.inputs[i].name, f.var)))

\* a term of a rule body: variable.is_(category) or variable.is_not(category)
term(m, views, t) ==
    IF t.neg THEN is_not(m, Get(views, t.var), t.category)
    ELSE is_(m, Get(views, t.var), t.category)

RuleValue(degree) == [ok |-> TRUE, err |-> "", names |-> {}, degree |-> degree]

RuleError(err, names) == [ok |-> FALSE, err |-> err, names |-> names, degree |-> <<>>]

\* a rule callable: rule(**inputs) -> (category, fuzzy_value)
rule(m, views, r) ==
    With(term(m, views, r.t1), LAMBDA x :
        IF ~x.ok THEN RuleError("UnknownCategory", {r.t1.category})
        ELSE IF r.kind = "is" THEN RuleValue(x.degree)
        ELSE With(term(m, views, r.t2), LAMBDA y :
            IF ~y.ok THEN RuleError("UnknownCategory", {r.t2.category})
            ELSE With(IF r.kind = "or" THEN FuzzyValue_or(x.degree, y.degree)
                      ELSE FuzzyValue_and(x.degree, y.degree),
                      LAMBDA z :
                        IF ~z.ok THEN RuleError("ShapeMismatch", {})
                        ELSE RuleValue(z.degree))))

\* a slip: result[category] = fuzzy_value
accumulate_overwriting(m, result, category, fuzzy_value, i) ==
    With(is_(m, result, category), LAMBDA cur :
        IF ~cur.ok THEN Raised(m, "UnknownCategory", {category}, i)
        ELSE Returned(setitem(m, result, category, fuzzy_value), result, <<>>))

\* result[category] = result[category] | fuzzy_value
accumulate(m, result, category, fuzzy_value, i) ==
    With(is_(m, result, category), LAMBDA cur :
        IF ~cur.ok THEN Raised(m, "UnknownCategory", {category}, i)
        ELSE With(FuzzyValue_or(cur.degree, fuzzy_value), LAMBDA agg :
            With(Note(m, Event("or", "run_rules", category,
                               Len(cur.degree), Len(fuzzy_value))),
                 LAMBDA m2 :
                    IF ~agg.ok THEN Raised(m2, "ShapeMismatch", {category}, i)
                    ELSE Returned(setitem(m2, result, category, agg.degree),
                                  result, <<>>))))

\* for rule in self.rules: category, fuzzy_value = rule(**inputs); ...
RECURSIVE run_rules_loop(_, _, _, _, _)
run_rules_loop(m, self, views, result, i) ==
    IF i > Len(self.rules) THEN Returned(m, result, views)
    ELSE With(Note(m, Event("rule", "run_rules", self.rules[i].category, 0, 0)),
              LAMBDA m1 :
                With(rule(m1, views, self.rules[i]), LAMBDA rv :
                    IF ~rv.ok THEN Raised(m1, rv.err, rv.names, i)
                    ELSE With(accumulate(m1, result, self.rules[i].category, rv.degree, i),
                              LAMBDA acc :
                                IF ~acc.ok THEN acc
                                ELSE run_rules_loop(acc.m, self, views, result, i + 1))))

run_rules(m, self, crisp) ==
    IF check_all_variables_provided(self, crisp) # {}
    THEN Raised(m, "MissingInput", check_all_variables_provided(self, crisp), 0)
    ELSE With(fuzzify_inputs(m, self, crisp, 1, <<>>), LAMBDA f :
            IF ~f.ok THEN f
            ELSE With(clone(f.m, self.output), LAMBDA c :
                    run_rules_loop(c.m, self, f.views, c.var, 1)))

\* np.linspace(lo, hi, n): n evenly spaced points, as fractions over n - 1
linspace(lo, hi, n) ==
    [i \in 1..n |-> [num |-> lo * (n - 1) + (i - 1) * (hi - lo), den |-> n - 1]]

\* aggregation = aggregation | (output[category] & results[category])
clip_and_join(m, out, results, category, aggregation) ==
    With(is_(m, out, category), LAMBDA curve :
    With(is_(m, results, category), LAMBDA strength :
        IF ~curve.ok \/ ~strength.ok THEN [ok |-> FALSE, m |-> m, degree |-> <<>>]
        ELSE With(FuzzyValue_and(curve.degree, strength.degree), LAMBDA clipped :
             With(Note(m, Event("and", "predict", category,
                                Len(curve.degree), Len(strength.degree))),
                  LAMBDA m1 :
                    IF ~clipped.ok THEN [ok |-> FALSE, m |-> m1, degree |-> <<>>]
                    ELSE With(FuzzyValue_or(aggregation, clipped.degree), LAMBDA joined :
                            [ok |-> joined.ok,
                             m |-> Note(m1, Event("or", "predict", category,
                                                  Len(aggregation), Len(clipped.degree))),
                             degree |-> joined.degree])))))

\* for category in results: ...
RECURSIVE aggregate(_, _, _, _, _, _)
aggregate(m, out, results, keys, i, aggregation) ==
    IF i > Len(keys) THEN [ok |-> TRUE, m |-> m, degree |-> aggregation]
    ELSE With(clip_and_join(m, out, results, keys[i], aggregation), LAMBDA step :
            IF ~step.ok THEN step
            ELSE aggregate(step.m, out, results, keys, i + 1, step.degree))

NoCentroid == [kind |-> "none", num |-> 0, den |-> 0]

\* np.sum(universe * degree) / np.sum(degree) as a reduced fraction; 0/0 is NaN
centroid(universe, degree) ==
    With(SumSeq([i \in 1..Len(universe) |-> universe[i].num * degree[i]]), LAMBDA n :
    With(universe[1].den * SumSeq(degree), LAMBDA d :
        IF d = 0 THEN [kind |-> IF n = 0 THEN "nan" ELSE "inf", num |-> 0, den |-> 0]
        ELSE [kind |-> "finite", num |-> n \div GCD(n, d), den |-> d \div GCD(n, d)]))

\* the keys of a variable's _fuzzy_values, in iteration order
iter(m, v) == [i \in 1..Len(m.h[v.fv]) |-> m.h[v.fv][i].k]

predict(m, self, crisp) ==
    With(run_rules(m, self, crisp), LAMBDA results :
        IF ~results.ok THEN [run |-> results, centroid |-> NoCentroid]
        ELSE
        With(linspace(self.output.min_val, self.output.max_val, UniverseN), LAMBDA universe :
        With(fuzzify(Note(results.m, Event("fuzzify", "predict", self.output.name, 0, 0)),
                     self.output, universe),
             LAMBDA out :
                IF ~out.ok
                THEN [run |-> Raised(out.m, "NoMembershipFunctions", {self.output.name}, 0),
                      centroid |-> NoCentroid]
                ELSE With(aggregate(out.m, out.var, results.result,
                                    iter(out.m, results.result), 1,
                                    [i \in 1..Len(universe) |-> 0]),
                          LAMBDA agg :
                            IF ~agg.ok
                            THEN [run |-> Raised(agg.m, "ShapeMismatch", {}, 0),
                                  centroid |-> NoCentroid]
                            ELSE [run |-> [results EXCEPT !.m = agg.m],
                                  centroid |-> centroid(universe, agg.degree)]))))

predict_categorical(m, self, crisp) ==
    With(run_rules(m, self, crisp), LAMBDA results :
        IF ~results.ok THEN [run |-> results, category |-> ""]
        ELSE With(get_max_membership_category(results.m, results.result), LAMBDA best :
                IF ~best.ok
                THEN [run |-> Raised(results.m, "ValueError", {}, 0), category |-> ""]
                ELSE [run |-> results, category |-> best.category]))

-----------------------------------------------------------------------------
(* The configurations and inputs the model draws from *)

Tri(a, b, c) == [a |-> a, b |-> b, c |-> c]

\* every triangle a <= b <= c over the coordinates
Triangles == {Tri(a, b, c) : a \in Coords, b \in Coords, c \in Coords} \ 
             {f \in [a : Coords, b : Coords, c : Coords] : f.a > f.b \/ f.b > f.c}

\* the shapes of the output's two categories: two shoulders, a triangle under a
\* shoulder, a single point beside a shoulder, two single points
OutSetups == {<<Tri(0, 0, MaxCoord), Tri(0, MaxCoord, MaxCoord)>>,
              <<Tri(0, 1, MaxCoord), Tri(0, MaxCoord, MaxCoord)>>,
              <<Tri(1, 1, 1), Tri(0, MaxCoord, MaxCoord)>>,
              <<Tri(1, 1, 1), Tri(0, 0, 0)>>}

InputNames == {"service_level", "food_quality"}

OutLabels == {"CHEAP", "GENEROUS"}

Labels == OutLabels \cup {"LAVISH"}

Atom(var, category, neg) == [var |-> var, category |-> category, neg |-> neg]

Rule(category, kind, t1, t2) == [category |-> category, kind |-> kind, t1 |-> t1, t2 |-> t2]

\* rules in the style of test.py and main.py; LAVISH is registered nowhere
RuleBase ==
    { Rule("CHEAP", "is", Atom("service_level", "POOR", FALSE),
                          Atom("service_level", "POOR", FALSE)),
      Rule("CHEAP", "is", Atom("food_quality", "BAD", FALSE),
                          Atom("food_quality", "BAD", FALSE)),
      Rule("GENEROUS", "or", Atom("service_level", "GOOD", FALSE),
                             Atom("food_quality", "BAD", TRUE)),
      Rule("LAVISH", "is", Atom("service_level", "GOOD", FALSE),
                           Atom("service_level", "GOOD", FALSE)) }

\* the rule lists: up to MaxRules different rules in any order
RuleLists == UNION {{rs \in [1..n -> RuleBase] :
                        \A i \in 1..n, j \in 1..n : rs[i] = rs[j] => i = j} :
                    n \in 0..MaxRules}

\* crisp_values: keyword arguments for some of the input variables
CrispValues == UNION {[S -> Coords] : S \in SUBSET InputNames}

\* degree arrays of every length up to the universe's
Operands == {[i \in 1..n |-> IF i % 2 = p THEN Scale ELSE 0] :
                n \in 1..UniverseN, p \in 0..1}

NoCall == [op |-> "none", crisp |-> [n \in {} |-> 0], var |-> "", category |-> "",
           x |-> 0, a |-> <<>>, b |-> <<>>, f |-> Tri(0, 0, 0)]

NoOutcome == [kind |-> "none", err |-> "", names |-> {}, rule |-> 0,
              category |-> "", centroid |-> NoCentroid, fuzzy_values |-> <<>>,
              degree |-> <<>>, aliased |-> FALSE]

Machine == [h |-> heap, log |-> <<>>]

Engine == FuzzyLogic(inputs, output, rules)

Defs == {inputs[i] : i \in 1..Len(inputs)} \cup {output}

\* the objects that outlive a call are the definitions' own
Surviving(m) == SubSeq(m.h, 1, Len(heap))

Aliased(r) ==
    r.ok /\ (\/ r.result.fv <= Len(heap)
             \/ \E i \in 1..Len(r.views) : r.views[i].v.fv <= Len(heap))

Failure(r) == [NoOutcome EXCEPT !.kind = "error", !.err = r.err,
                                !.names = r.names, !.rule = r.rule]

-----------------------------------------------------------------------------
(* Engine: the state after the variables are set up and FuzzyLogic(...) built *)

ServiceLevel ==
    LET v0 == FuzzyVariable("service_level", 0, MaxCoord, 1)
        m0 == [h |-> <<<<>>, <<>>, <<>>>>, log |-> <<>>]
        s1 == add_triangular_membership_function(m0, v0, "POOR", 0, 0, MaxCoord)
    IN  add_triangular_membership_function(s1.m, s1.var, "GOOD", 0, MaxCoord, MaxCoord)

FoodQuality ==
    add_triangular_membership_function(ServiceLevel.m,
        FuzzyVariable("food_quality", 0, MaxCoord, 2), "BAD", 0, 0, MaxCoord)

TipPercentage(f, g) ==
    LET s1 == add_triangular_membership_function(FoodQuality.m,
                  FuzzyVariable("tip_percentage", 0, MaxCoord, 3), "CHEAP", f.a, f.b, f.c)
    IN  add_triangular_membership_function(s1.m, s1.var, "GENEROUS", g.a, g.b, g.c)

Init ==
    \E fg \in OutSetups, rs \in RuleLists :
        /\ inputs = <<ServiceLevel.var, FoodQuality.var>>
        /\ output = TipPercentage(fg[1], fg[2]).var
        /\ heap = TipPercentage(fg[1], fg[2]).m.h
        /\ rules = rs
        /\ call = NoCall
        /\ outcome = NoOutcome
        /\ log = <<>>

RunRules ==
    \E crisp \in CrispValues :
        \E r \in {run_rules(Machine, Engine, crisp)} :
            /\ call' = [NoCall EXCEPT !.op = "run_rules", !.crisp = crisp]
            /\ outcome' = IF r.ok
                          THEN [NoOutcome EXCEPT !.kind = "value",
                                    !.fuzzy_values = r.m.h[r.result.fv],
                                    !.aliased = Aliased(r)]
                          ELSE Failure(r)
            /\ heap' = Surviving(r.m)
            /\ log' = r.m.log
            /\ UNCHANGED <<inputs, output, rules>>

Predict ==
    \E crisp \in CrispValues :
        \E p \in {predict(Machine, Engine, crisp)} :
            /\ call' = [NoCall EXCEPT !.op = "predict", !.crisp = crisp]
            /\ outcome' = IF p.run.ok
                          THEN [NoOutcome EXCEPT !.kind = "value",
                                    !.centroid = p.centroid,
                                    !.aliased = Aliased(p.run)]
                          ELSE Failure(p.run)
            /\ heap' = Surviving(p.run.m)
            /\ log' = p.run.m.log
            /\ UNCHANGED <<inputs, output, rules>>

PredictCategorical ==
    \E crisp \in CrispValues :
        \E p \in {predict_categorical(Machine, Engine, crisp)} :
            /\ call' = [NoCall EXCEPT !.op = "predict_categorical", !.crisp = crisp]
            /\ outcome' = IF p.run.ok
                          THEN [NoOutcome EXCEPT !.kind = "value",
                                    !.category = p.category,
                                    !.aliased = Aliased(p.run)]
                          ELSE Failure(p.run)
            /\ heap' = Surviving(p.run.m)
            /\ log' = p.run.m.log
            /\ UNCHANGED <<inputs, output, rules>>

\* variable.fuzzify(x) on a definition
Fuzzify ==
    \E v \in Defs, x \in Coords :
        \E f \in {fuzzify(Machine, v, <<Pt(x)>>)} :
            /\ call' = [NoCall EXCEPT !.op = "fuzzify", !.var = v.name, !.x = x]
            /\ outcome' = IF f.ok
                          THEN [NoOutcome EXCEPT !.kind = "value",
                                    !.fuzzy_values = f.m.h[f.var.fv],
                                    !.aliased = f.var.fv <= Len(heap)]
                          ELSE [NoOutcome EXCEPT !.kind = "error",
                                    !.err = "NoMembershipFunctions"]
            /\ heap' = Surviving(f.m)
            /\ log' = <<>>
            /\ UNCHANGED <<inputs, output, rules>>

\* a & b on two FuzzyValues
And ==
    \E a \in Operands, b \in Operands :
        LET r == FuzzyValue_and(a, b)
        IN  /\ call' = [NoCall EXCEPT !.op = "and", !.a = a, !.b = b]
            /\ outcome' = IF r.ok
                          THEN [NoOutcome EXCEPT !.kind = "value", !.degree = r.degree]
                          ELSE [NoOutcome EXCEPT !.kind = "error", !.err = "ShapeMismatch"]
            /\ log' = <<>>
            /\ UNCHANGED <<inputs, output, rules, heap>>

\* a | b on two FuzzyValues
Or ==
    \E a \in Operands, b \in Operands :
        LET r == FuzzyValue_or(a, b)
        IN  /\ call' = [NoCall EXCEPT !.op = "or", !.a = a, !.b = b]
            /\ outcome' = IF r.ok
                          THEN [NoOutcome EXCEPT !.kind = "value", !.degree = r.degree]
                          ELSE [NoOutcome EXCEPT !.kind = "error", !.err = "ShapeMismatch"]
            /\ log' = <<>>
            /\ UNCHANGED <<inputs, output, rules, heap>>

Next == RunRules \/ Predict \/ PredictCategorical \/ Fuzzify

Spec == Init /\ [][Next]_vars

-----------------------------------------------------------------------------
(* Values: the FuzzyValue combinators called directly, beside the engine's own *)

InitValue == Init /\ Len(rules) <= 1

NextValue == And \/ Or \/ RunRules \/ Predict

SpecValue == InitValue /\ [][NextValue]_vars

-----------------------------------------------------------------------------
(* Variable: one FuzzyVariable from FuzzyVariable.create on *)

InitVariable ==
    /\ inputs = <<>>
    /\ output = FuzzyVariable("tip_percentage", 0, MaxCoord, 1)
    /\ heap = <<<<>>>>
    /\ rules = <<>>
    /\ call = NoCall
    /\ outcome = NoOutcome
    /\ log = <<>>

AddTriangular ==
    \E category \in OutLabels, f \in Triangles :
        LET r == add_triangular_membership_function(Machine, output, category, f.a, f.b, f.c)
        IN  /\ call' = [NoCall EXCEPT !.op = "add_triangular_membership_function",
                                      !.var = output.name, !.category = category, !.f = f]
            /\ outcome' = IF r.ok THEN [NoOutcome EXCEPT !.kind = "value"]
                          ELSE [NoOutcome EXCEPT !.kind = "error", !.err = "DuplicateCategory"]
            /\ output' = r.var
            /\ heap' = Surviving(r.m)
            /\ log' = <<>>
            /\ UNCHANGED <<inputs, rules>>

\* variable.is_(category) on a definition
Is ==
    \E v \in Defs, category \in Labels :
        LET r == is_(Machine, v, category)
        IN  /\ call' = [NoCall EXCEPT !.op = "is_", !.var = v.name, !.category = category]
            /\ outcome' = IF r.ok
                          THEN [NoOutcome EXCEPT !.kind = "value", !.degree = r.degree]
                          ELSE [NoOutcome EXCEPT !.kind = "error", !.err = "UnknownCategory",
                                                 !.names = {category}]
            /\ log' = <<>>
            /\ UNCHANGED <<inputs, output, rules, heap>>

\* variable.is_not(category) on a definition
IsNot ==
    \E v \in Defs, category \in Labels :
        LET r == is_not(Machine, v, category)
        IN  /\ call' = [NoCall EXCEPT !.op = "is_not", !.var = v.name, !.category = category]
            /\ outcome' = IF r.ok
                          THEN [NoOutcome EXCEPT !.kind = "value", !.degree = r.degree]
                          ELSE [NoOutcome EXCEPT !.kind = "error", !.err = "UnknownCategory",
                                                 !.names = {category}]
            /\ log' = <<>>
            /\ UNCHANGED <<inputs, output, rules, heap>>

NextVariable == AddTriangular \/ Fuzzify \/ Is \/ IsNot

SpecVariable == InitVariable /\ [][NextVariable]_vars

-----------------------------------------------------------------------------
(* What the claims speak of, stated without the engine's loops *)

EngineOps == {"run_rules", "predict", "predict_categorical"}

CallOps == EngineOps \cup {"fuzzify"}

SetMax(S) == CHOOSE x \in S : \A y \in S : y <= x

Registered(v) == {v.mfs[i].k : i \in 1..Len(v.mfs)}

InputNamed(name) == CHOOSE v \in {inputs[i] : i \in 1..Len(inputs)} : v.name = name

AllProvided == \A i \in 1..Len(inputs) : inputs[i].name \in DOMAIN call.crisp

Missing == {inputs[i].name : i \in 1..Len(inputs)} \ DOMAIN call.crisp

UnknownRules == {i \in 1..Len(rules) : rules[i].category \notin Registered(output)}

\* the degree a rule returns for the crisp values of the call
TermDegree(t) ==
    LET d == function(Get(InputNamed(t.var).mfs, t.category), Pt(call.crisp[t.var]))
    IN  IF t.neg THEN Scale - d ELSE d

RuleDegree(r) ==
    IF r.kind = "is" THEN TermDegree(r.t1)
    ELSE IF r.kind = "or" THEN Max2(TermDegree(r.t1), TermDegree(r.t2))
    ELSE Min2(TermDegree(r.t1), TermDegree(r.t2))

\* the aggregated rule strength of an output category: 0 when no rule named it
Strength(c) ==
    SetMax({0} \cup {RuleDegree(rules[i]) : i \in {j \in 1..Len(rules) : rules[j].category = c}})

\* the aggregate curve at the i-th point of the output universe
Universe == linspace(output.min_val, output.max_val, UniverseN)

AggregateAt(i) ==
    SetMax({0} \cup {Min2(function(output.mfs[c].v, Universe[i]), Strength(output.mfs[c].k)) :
                        c \in 1..Len(output.mfs)})

Weight == SumSeq([i \in 1..UniverseN |-> AggregateAt(i)])

Moment == SumSeq([i \in 1..UniverseN |-> Universe[i].num * AggregateAt(i)])

\* what a caller sees of a call: a value, or the kind of error
Seen(o) == [kind |-> o.kind, err |-> o.err, category |-> o.category, centroid |-> o.centroid]

Reordered(p) == FuzzyLogic(inputs, output, [i \in 1..Len(rules) |-> rules[p[i]]])

SeenOfPredict(p) ==
    IF p.run.ok THEN [kind |-> "value", err |-> "", category |-> "", centroid |-> p.centroid]
    ELSE [kind |-> "error", err |-> p.run.err, category |-> "", centroid |-> NoCentroid]

SeenOfCategorical(p) ==
    IF p.run.ok THEN [kind |-> "value", err |-> "", category |-> p.category,
                      centroid |-> NoCentroid]
    ELSE [kind |-> "error", err |-> p.run.err, category |-> "", centroid |-> NoCentroid]

-----------------------------------------------------------------------------
(* Claims *)

\* C1: for every permutation of the rule list, predict and predict_categorical
\* return the same result for the same crisp values (the same value, or an
\* error of the same kind) as with the original order.
C1_RuleOrderIrrelevant ==
    /\ call.op = "predict" =>
          \A p \in Permutations(1..Len(rules)) :
              SeenOfPredict(predict(Machine, Reordered(p), call.crisp)) = Seen(outcome)
    /\ call.op = "predict_categorical" =>
          \A p \in Permutations(1..Len(rules)) :
              SeenOfCategorical(predict_categorical(Machine, Reordered(p), call.crisp))
                  = Seen(outcome)

\* C1 witness: predict returned a number from two rules that name the same
\* category with different strengths.
C1_Witness ==
    /\ call.op = "predict" /\ outcome.kind = "value" /\ outcome.centroid.kind = "finite"
    /\ \E i \in 1..Len(rules), j \in 1..Len(rules) :
          /\ i < j /\ rules[i].category = rules[j].category
          /\ RuleDegree(rules[i]) > RuleDegree(rules[j])

\* C2: predict_categorical returns the output category of highest aggregated rule
\* strength (0 for a category no rule named), and among several of the highest
\* strength the one registered first; it returns it whenever every input is
\* supplied and every rule names a registered category.
C2_CategoricalIsFirstMax ==
    call.op = "predict_categorical" =>
        /\ (AllProvided /\ UnknownRules = {}) => outcome.kind = "value"
        /\ outcome.kind = "value" =>
              \E i \in 1..Len(output.mfs) :
                  /\ outcome.category = output.mfs[i].k
                  /\ \A j \in 1..Len(output.mfs) :
                        Strength(output.mfs[j].k) <= Strength(output.mfs[i].k)
                  /\ \A j \in 1..(i - 1) :
                        Strength(output.mfs[j].k) < Strength(output.mfs[i].k)

\* C2 witness: two categories share the highest, nonzero strength and the first
\* registered one was returned.
C2_Witness ==
    /\ call.op = "predict_categorical" /\ outcome.kind = "value"
    /\ Len(output.mfs) >= 2
    /\ outcome.category = output.mfs[1].k
    /\ Strength(output.mfs[1].k) > 0
    /\ Strength(output.mfs[2].k) = Strength(output.mfs[1].k)

\* C3: predict returns the centroid sum(universe[i] * aggregate[i]) / sum(aggregate[i])
\* where aggregate[i] is the max over the output categories of min(membership at
\* universe[i], aggregated strength); it returns it whenever that quotient is defined.
C3_PredictIsCentroid ==
    call.op = "predict" =>
        /\ (AllProvided /\ UnknownRules = {} /\ Weight # 0) =>
              outcome.kind = "value" /\ outcome.centroid.kind = "finite"
        /\ (outcome.kind = "value" /\ outcome.centroid.kind = "finite") =>
              /\ Weight # 0
              /\ outcome.centroid.num * ((UniverseN - 1) * Weight)
                    = Moment * outcome.centroid.den

\* C3 witness: a centroid over a curve that a rule strength strictly between 0
\* and 1 clipped.
C3_Witness ==
    /\ call.op = "predict" /\ outcome.kind = "value" /\ outcome.centroid.kind = "finite"
    /\ \E c \in 1..Len(output.mfs), i \in 1..UniverseN :
          /\ 0 < Strength(output.mfs[c].k)
          /\ Strength(output.mfs[c].k) < function(output.mfs[c].v, Universe[i])
    /\ \E c \in 1..Len(output.mfs) : Strength(output.mfs[c].k) = 0

\* C4: a call that omits the crisp value of some declared input fails with an
\* error naming exactly the missing variables, before any input is fuzzified and
\* before any rule is invoked, and returns no value.
C4_MissingInputNamed ==
    call.op \in EngineOps =>
        /\ Missing # {} =>
              /\ outcome.kind = "error" /\ outcome.err = "MissingInput"
              /\ outcome.names = Missing
              /\ log = <<>>
              /\ outcome.fuzzy_values = <<>> /\ outcome.category = ""
              /\ outcome.centroid = NoCentroid
        /\ outcome.err = "MissingInput" => Missing # {}

\* C4 witness: predict was called without food_quality only.
C4_Witness ==
    /\ call.op = "predict" /\ DOMAIN call.crisp = {"service_level"}
    /\ outcome.err = "MissingInput" /\ outcome.names = {"food_quality"}

\* C5: when a rule returns a category that is not registered on the output
\* variable, predict and predict_categorical (and run_rules) fail with an
\* unknown-category error at that rule, wherever it stands in the list and
\* whatever the rules before it returned, and produce no value.
C5_UnknownCategoryFails ==
    (call.op \in EngineOps /\ AllProvided /\ UnknownRules # {}) =>
        LET first == CHOOSE i \in UnknownRules : \A j \in UnknownRules : i <= j
        IN  /\ outcome.kind = "error" /\ outcome.err = "UnknownCategory"
            /\ outcome.rule = first
            /\ outcome.names = {rules[first].category}
            /\ outcome.fuzzy_values = <<>> /\ outcome.category = ""
            /\ outcome.centroid = NoCentroid

\* C5 witness: the unregistered category came second, after a rule that fired.
C5_Witness ==
    /\ call.op = "predict" /\ AllProvided /\ Len(rules) = 2
    /\ UnknownRules = {2}
    /\ RuleDegree(rules[1]) > 0
    /\ outcome.err = "UnknownCategory" /\ outcome.rule = 2

\* C6: when the aggregate curve has zero total weight, predict fails at that
\* call instead of returning a number; it never returns NaN.
C6_NoNaN ==
    call.op = "predict" => ~(outcome.kind = "value" /\ outcome.centroid.kind = "nan")

\* C7 as claimed: is_ (and is_not) on a variable that was never fuzzified fails,
\* also when the category is registered.
C7_UnfuzzifiedFails ==
    call.op \in {"is_", "is_not"} => outcome.kind = "error"

\* C7 as amended: on a variable that was never fuzzified, is_ of a registered
\* category returns the default FuzzyValue [0] that add_membership_function
\* stored (is_not returns [1]); only an unregistered category fails, with the
\* category-not-defined error.
C7_UnfuzzifiedDefault ==
    call.op \in {"is_", "is_not"} =>
        IF call.category \in Registered(output)
        THEN /\ outcome.kind = "value"
             /\ outcome.degree = IF call.op = "is_" THEN <<0>> ELSE <<Scale>>
        ELSE outcome.kind = "error" /\ outcome.err = "UnknownCategory"

\* C7 witness: is_ of a registered category on the never fuzzified variable.
C7_Witness ==
    /\ call.op = "is_" /\ call.category \in Registered(output)
    /\ Len(output.mfs) = 2
    /\ outcome.kind = "value" /\ outcome.degree = <<0>>

CombineEvents == {i \in 1..Len(log) : log[i].ev \in {"and", "or"}}

\* C8 as claimed: & and | reject operands of different lengths, and every
\* combination the engine performs has operands of the same length.
C8_SameLengthOnly ==
    /\ (call.op \in {"and", "or"} /\ Len(call.a) # Len(call.b)) => outcome.kind = "error"
    /\ \A i \in CombineEvents : log[i].la = log[i].lb

\* C8 as amended: & and | reject operands of different lengths unless one has
\* length 1; that single degree is then combined with every element of the
\* other and nothing is truncated.  In run_rules both operands have length 1;
\* in predict the clip combines the universe-long curve with the length-1
\* strength in that way, and the union combines two universe-long curves.
C8_BroadcastOnly ==
    /\ call.op \in {"and", "or"} =>
          LET la == Len(call.a)
              lb == Len(call.b)
              n  == IF la >= lb THEN la ELSE lb
              ea(i) == IF la = 1 THEN call.a[1] ELSE call.a[i]
              eb(i) == IF lb = 1 THEN call.b[1] ELSE call.b[i]
          IN  IF la # lb /\ la # 1 /\ lb # 1
              THEN outcome.kind = "error" /\ outcome.err = "ShapeMismatch"
              ELSE /\ outcome.kind = "value"
                   /\ Len(outcome.degree) = n
                   /\ \A i \in 1..n :
                         outcome.degree[i] = IF call.op = "and" THEN Min2(ea(i), eb(i))
                                             ELSE Max2(ea(i), eb(i))
    /\ \A i \in CombineEvents :
          IF log[i].by = "run_rules" THEN log[i].la = 1 /\ log[i].lb = 1
          ELSE IF log[i].ev = "and" THEN log[i].la = UniverseN /\ log[i].lb = 1
          ELSE log[i].la = UniverseN /\ log[i].lb = UniverseN

\* C8 witness: a length-1 operand combined with a longer one.
C8_Witness ==
    /\ call.op = "and" /\ Len(call.a) = 1 /\ Len(call.b) = UniverseN
    /\ call.a[1] = 0 /\ call.b[1] = Scale
    /\ outcome.kind = "value" /\ Len(outcome.degree) = UniverseN

\* C9: a fuzzify, run_rules, predict or predict_categorical call, successful or
\* failing, leaves every variable definition (name, bounds, membership functions,
\* stored fuzzy values) and the rule list as they were, and what it returns
\* shares no dict with a definition.
C9_ConfigurationUnchanged ==
    [][call'.op \in CallOps =>
          /\ inputs' = inputs /\ output' = output /\ rules' = rules
          /\ heap' = heap
          /\ ~outcome'.aliased]_vars

\* C9 witness: run_rules returned nonzero strengths while the output definition
\* still stores its zeros.
C9_Witness ==
    /\ call.op = "run_rules" /\ outcome.kind = "value"
    /\ \E i \in 1..Len(outcome.fuzzy_values) : outcome.fuzzy_values[i].v # <<0>>
    /\ \A i \in 1..Len(heap[output.fv]) : heap[output.fv][i].v = <<0>>

\* C10: fuzzifying a crisp input equal to the peak b of a triangular membership
\* function (a <= b <= c, degenerate shapes included) yields degree 1.
C10_PeakIsOne ==
    (call.op = "fuzzify" /\ outcome.kind = "value") =>
        \A i \in 1..Len(output.mfs) :
            output.mfs[i].v.b = call.x => outcome.fuzzy_values[i].v = <<Scale>>

=============================================================================
